---- MODULE Spec2Model ----
(***************************************************************************)
(* Model of railway.py: Train, TrainTrip and Passenger.                    *)
(*                                                                         *)
(* Objects are identified by handles (strings).  A Train object's fields   *)
(* live in `trains`, the constructed TrainTrip objects in `trips`.         *)
(* `last` records the most recent call (its arguments, the passenger list  *)
(* it found, the exception it raised or the value it returned), so that    *)
(* the contract of each operation can be stated over states.               *)
(***************************************************************************)
EXTENDS Integers, Sequences, FiniteSets, TLC

VARIABLES trains, trips, last, pending, raced

vars == <<trains, trips, last, pending, raced>>

----------------------------------------------------------------------------
(* Bounds of the model *)

\* largest max_cargo_weight a Train is created with
MaxCargo == 3

\* most list entries explored, counted over all trips (a zero-weight passenger
\* can join for ever)
MaxBoarded == 3

----------------------------------------------------------------------------
(* Objects and inputs *)

\* Train objects
Trains == {"train1"}

\* values passed as the `train` argument: a Train, or something else
TrainArgs == Trains \cup {"not_a_train"}

\* TrainTrip objects that may get constructed
TripIds == {"tripA", "tripB"}

\* Passenger objects; p1 and p2 are distinct objects with equal name and weight
Passengers == {"p1", "p2", "p3"}

name == [p \in Passengers |->
            CASE p = "p1" -> "Ali Saeedi"
              [] p = "p2" -> "Ali Saeedi"
              [] p = "p3" -> "Abolfazl Zandi"]

cargo_weight == [p \in Passengers |->
            CASE p = "p1" -> 1
              [] p = "p2" -> 1
              [] p = "p3" -> 0]

AVAILABLE_CITIES == <<
    "Arak", "Ardabil", "Urmia", "Isfahan", "Ahvaz", "Ilam",
    "Bojnord", "Bandar Abbas", "Bushehr", "Birjand", "Tabriz",
    "Tehran", "Khorramabad", "Rasht", "Zahedan", "Zanjan", "Sari",
    "Semnan", "Sanandaj", "Shahr-e Kord", "Shiraz", "Qazvin", "Qom",
    "Karaj", "Kermanshah", "Gorgan", "Mashhad", "Hamadan", "Yasuj",
    "Yazd" >>

\* city names given to the constructor / to Train: two listed, one unlisted
CityInputs == {"Sanandaj", "Rasht", "Paris"}

\* stations a Train is created at (Train does not validate last_station)
StationInputs == {"Sanandaj", "Paris"}

----------------------------------------------------------------------------
(* Exceptions: the code raises Exception(message) *)

NoError == "no exception"
InvalidTrainError == "This input is not a train!"
TrainUnavailableError == "This train is currently on another trip!"
UnknownCityError == "This input is not a verified city!"
SameCityError == "Origin and destination cities can't be the same!"
TrainNotAtOriginError == "The train for this trip is not available at the origin city!"
InsufficientCapacityError == "Heavy load!"
NotOnTripError == "This passenger is not assigned to this trip!"

----------------------------------------------------------------------------
(* Pure helpers *)

\* `x in tuple`
city_in(c, cities) == \E i \in DOMAIN cities : cities[i] = c

\* variant: equality by value (name and cargo weight)
passenger_eq_by_value(a, b) ==
    name[a] = name[b] /\ cargo_weight[a] = cargo_weight[b]

\* Passenger defines no __eq__: == is object identity
passenger_eq(a, b) == a = b

\* `x in list`
list_contains(s, x) == \E i \in DOMAIN s : passenger_eq(s[i], x)

\* list.remove(x): drops the first element equal to x
RECURSIVE list_remove(_, _)
list_remove(s, x) ==
    IF s = <<>> THEN <<>>
    ELSE IF passenger_eq(Head(s), x) THEN Tail(s)
    ELSE <<Head(s)>> \o list_remove(Tail(s), x)

\* the loop of __repr__: remaining_capacity -= passenger.cargo_weight
RECURSIVE repr_loop(_, _)
repr_loop(remaining_capacity, ps) ==
    IF ps = <<>> THEN remaining_capacity
    ELSE repr_loop(remaining_capacity - cargo_weight[Head(ps)], Tail(ps))

\* variant: the loop is missing, the train's capacity is returned as it is
TrainTrip_repr_no_loop(t) == trains[trips[t].train].max_cargo_weight

\* variant: `=` for `-=`, only the last passenger's cargo is subtracted
TrainTrip_repr_last_only(t) ==
    LET ps == trips[t].passengers
        max == trains[trips[t].train].max_cargo_weight
    IN  IF ps = <<>> THEN max ELSE max - cargo_weight[ps[Len(ps)]]

\* TrainTrip.__repr__ on the trip object t
TrainTrip_repr(t) ==
    repr_loop(trains[trips[t].train].max_cargo_weight, trips[t].passengers)

\* TrainTrip.__call__
TrainTrip_call(t) == TrainTrip_repr(t)

validate_train(train) ==
    IF train \notin Trains THEN InvalidTrainError
    ELSE IF trains[train].on_trip THEN TrainUnavailableError
    ELSE NoError

\* variant: the destination is checked against the list as well
validate_origin_city_checks_destination(origin_city, destination_city, train) ==
    IF ~city_in(origin_city, AVAILABLE_CITIES) THEN UnknownCityError
    ELSE IF ~city_in(destination_city, AVAILABLE_CITIES) THEN UnknownCityError
    ELSE IF origin_city = destination_city THEN SameCityError
    ELSE IF origin_city # trains[train].last_station THEN TrainNotAtOriginError
    ELSE NoError

\* variant: the same-city test comes before the membership test
validate_origin_city_same_first(origin_city, destination_city, train) ==
    IF origin_city = destination_city THEN SameCityError
    ELSE IF ~city_in(origin_city, AVAILABLE_CITIES) THEN UnknownCityError
    ELSE IF origin_city # trains[train].last_station THEN TrainNotAtOriginError
    ELSE NoError

\* variant: the same-city test is missing
validate_origin_city_no_same_check(origin_city, destination_city, train) ==
    IF ~city_in(origin_city, AVAILABLE_CITIES) THEN UnknownCityError
    ELSE IF origin_city # trains[train].last_station THEN TrainNotAtOriginError
    ELSE NoError

\* variant: the train's station is not compared with the origin
validate_origin_city_no_station_check(origin_city, destination_city, train) ==
    IF ~city_in(origin_city, AVAILABLE_CITIES) THEN UnknownCityError
    ELSE IF origin_city = destination_city THEN SameCityError
    ELSE NoError

validate_origin_city(origin_city, destination_city, train) ==
    IF ~city_in(origin_city, AVAILABLE_CITIES) THEN UnknownCityError
    ELSE IF origin_city = destination_city THEN SameCityError
    ELSE IF origin_city # trains[train].last_station THEN TrainNotAtOriginError
    ELSE NoError

\* the exception __init__ ends with (validate_train runs first)
init_error(origin_city, destination_city, train) ==
    IF validate_train(train) # NoError THEN validate_train(train)
    ELSE validate_origin_city(origin_city, destination_city, train)

\* variant: `<` for `<=`
join_fits_strict(p, remaining) == cargo_weight[p] < remaining

\* variant: the test is missing
join_fits_unchecked(p, remaining) == TRUE

\* the test of join_trip
join_fits(p, remaining) == cargo_weight[p] <= remaining

----------------------------------------------------------------------------
(* State *)

NoCall == [op |-> "none", trip |-> "none", passenger |-> "none",
           error |-> NoError, before |-> <<>>, result |-> 0, read |-> 0,
           origin |-> "none", dest |-> "none", train |-> "none"]

Idle == [busy |-> FALSE, passenger |-> "none", trip |-> "none", read |-> 0]

Threads == {"th1", "th2"}

Init ==
    /\ trains \in [Trains -> [last_station : StationInputs,
                              max_cargo_weight : 0..MaxCargo,
                              on_trip : BOOLEAN]]
    /\ trips = <<>>
    /\ last = NoCall
    /\ pending = [th \in Threads |-> Idle]
    /\ raced = FALSE

----------------------------------------------------------------------------
(* Operations *)

RECURSIVE total_len(_)
total_len(ts) ==
    IF ts = {} THEN 0
    ELSE LET t == CHOOSE x \in ts : TRUE
         IN  Len(trips[t].passengers) + total_len(ts \ {t})

\* list entries over all trips
Boarded == total_len(DOMAIN trips)

\* join_trip calls that have read the capacity and not yet appended
InFlight == Cardinality({th \in Threads : pending[th].busy})

\* variant: a successful constructor marks the train as on a trip
TrainTrip_init_marks_busy(t, origin_city, destination_city, train) ==
    /\ t \notin DOMAIN trips
    /\ LET e == init_error(origin_city, destination_city, train) IN
         /\ trips' = IF e = NoError
                     THEN trips @@ (t :> [train |-> train,
                                          destination_city |-> destination_city,
                                          origin_city |-> origin_city,
                                          passengers |-> <<>>])
                     ELSE trips
         /\ trains' = IF e = NoError
                      THEN [trains EXCEPT ![train].on_trip = TRUE]
                      ELSE trains
         /\ last' = [NoCall EXCEPT !.op = "init", !.trip = t, !.error = e,
                                   !.origin = origin_city,
                                   !.dest = destination_city, !.train = train]
    /\ UNCHANGED <<pending, raced>>

\* TrainTrip(origin_city, destination_city, train), the new object being t
TrainTrip_init(t, origin_city, destination_city, train) ==
    /\ t \notin DOMAIN trips
    /\ LET e == init_error(origin_city, destination_city, train) IN
         /\ trips' = IF e = NoError
                     THEN trips @@ (t :> [train |-> train,
                                          destination_city |-> destination_city,
                                          origin_city |-> origin_city,
                                          passengers |-> <<>>])
                     ELSE trips
         /\ last' = [NoCall EXCEPT !.op = "init", !.trip = t, !.error = e,
                                   !.origin = origin_city,
                                   !.dest = destination_city, !.train = train]
    /\ UNCHANGED <<trains, pending, raced>>

\* trip(): the remaining-capacity query
Query(t) ==
    /\ t \in DOMAIN trips
    /\ last' = [NoCall EXCEPT !.op = "call", !.trip = t,
                              !.before = trips[t].passengers,
                              !.result = TrainTrip_call(t)]
    /\ UNCHANGED <<trains, trips, pending, raced>>

\* p.join_trip(t), run without interruption
join_trip(p, t) ==
    /\ t \in DOMAIN trips
    /\ Boarded < MaxBoarded
    /\ LET remaining == TrainTrip_call(t) IN
         IF join_fits(p, remaining)
         THEN /\ trips' = [trips EXCEPT ![t].passengers = Append(@, p)]
              /\ last' = [NoCall EXCEPT !.op = "join", !.trip = t, !.passenger = p,
                                        !.before = trips[t].passengers,
                                        !.read = remaining]
         ELSE /\ trips' = trips
              /\ last' = [NoCall EXCEPT !.op = "join", !.trip = t, !.passenger = p,
                                        !.before = trips[t].passengers,
                                        !.read = remaining,
                                        !.error = InsufficientCapacityError]
    /\ UNCHANGED <<trains, pending, raced>>

\* p.leave_trip(t)
leave_trip(p, t) ==
    /\ t \in DOMAIN trips
    /\ IF list_contains(trips[t].passengers, p)
       THEN /\ trips' = [trips EXCEPT ![t].passengers = list_remove(@, p)]
            /\ last' = [NoCall EXCEPT !.op = "leave", !.trip = t, !.passenger = p,
                                      !.before = trips[t].passengers]
       ELSE /\ trips' = trips
            /\ last' = [NoCall EXCEPT !.op = "leave", !.trip = t, !.passenger = p,
                                      !.before = trips[t].passengers,
                                      !.error = NotOnTripError]
    /\ UNCHANGED <<trains, pending, raced>>

\* join_trip, first step: `self.cargo_weight <= trip()` evaluated by thread th
join_read(th, p, t) ==
    /\ t \in DOMAIN trips
    /\ ~pending[th].busy
    /\ Boarded + InFlight < MaxBoarded
    /\ pending' = [pending EXCEPT ![th] = [busy |-> TRUE, passenger |-> p,
                                           trip |-> t, read |-> TrainTrip_call(t)]]
    /\ UNCHANGED <<trains, trips, last, raced>>

\* join_trip, second step: the append, or the raise, on the value read
join_append(th) ==
    /\ pending[th].busy
    /\ LET p == pending[th].passenger
           t == pending[th].trip
           remaining == pending[th].read
       IN /\ IF join_fits(p, remaining)
             THEN /\ trips' = [trips EXCEPT ![t].passengers = Append(@, p)]
                  /\ last' = [NoCall EXCEPT !.op = "join", !.trip = t,
                                            !.passenger = p,
                                            !.before = trips[t].passengers,
                                            !.read = remaining]
             ELSE /\ trips' = trips
                  /\ last' = [NoCall EXCEPT !.op = "join", !.trip = t,
                                            !.passenger = p,
                                            !.before = trips[t].passengers,
                                            !.read = remaining,
                                            !.error = InsufficientCapacityError]
          /\ raced' = (raced \/ remaining # TrainTrip_call(t))
    /\ pending' = [pending EXCEPT ![th] = Idle]
    /\ UNCHANGED trains

\* trip.passengers = [...]: the list replaced from outside
set_passengers(t, ps) ==
    /\ t \in DOMAIN trips
    /\ Boarded - Len(trips[t].passengers) + Len(ps) <= MaxBoarded
    /\ trips' = [trips EXCEPT ![t].passengers = ps]
    /\ last' = [NoCall EXCEPT !.op = "set", !.trip = t]
    /\ UNCHANGED <<trains, pending, raced>>

Lists == UNION {[1..n -> Passengers] : n \in 0..MaxBoarded}

Construct == \E t \in TripIds, o \in CityInputs, d \in CityInputs, a \in TrainArgs :
                TrainTrip_init(t, o, d, a)
Call == \E t \in TripIds : Query(t)
Join == \E p \in Passengers, t \in TripIds : join_trip(p, t)
Leave == \E p \in Passengers, t \in TripIds : leave_trip(p, t)

Next == Construct \/ Call \/ Join \/ Leave

Spec == Init /\ [][Next]_vars

\* the same program with the passenger list also assigned directly
Replace == \E t \in TripIds, ps \in Lists : set_passengers(t, ps)
NextDirect == Construct \/ Call \/ Join \/ Leave \/ Replace
SpecDirect == Init /\ [][NextDirect]_vars

\* the same program with join_trip calls of two threads interleaved
JoinRead == \E th \in Threads, p \in Passengers, t \in TripIds : join_read(th, p, t)
JoinAppend == \E th \in Threads : join_append(th)
\* one trip object suffices: the interleaved calls are on the same trip
ConstructOne == \E o \in CityInputs, d \in CityInputs, a \in TrainArgs :
                    TrainTrip_init("tripA", o, d, a)
NextRace == ConstructOne \/ JoinRead \/ JoinAppend \/ Leave
SpecRace == Init /\ [][NextRace]_vars

----------------------------------------------------------------------------
(* Vocabulary of the properties, stated without the operators above *)

CitySet == {AVAILABLE_CITIES[i] : i \in DOMAIN AVAILABLE_CITIES}

Occurrences(ps, p) == Cardinality({i \in DOMAIN ps : ps[i] = p})

RECURSIVE WeightOver(_, _)
WeightOver(ps, S) ==
    IF S = {} THEN 0
    ELSE LET p == CHOOSE x \in S : TRUE
         IN  Occurrences(ps, p) * cargo_weight[p] + WeightOver(ps, S \ {p})

\* sum of cargo_weight over a passenger list, each occurrence counted
TotalCargo(ps) == WeightOver(ps, Passengers)

MaxWeightOf(t) == trains[trips[t].train].max_cargo_weight

\* the list s without its i-th entry
WithoutIndex(s, i) == SubSeq(s, 1, i - 1) \o SubSeq(s, i + 1, Len(s))

\* the train argument of the last constructor call is a Train that is free
LastTrainValidAndFree == last.train \in Trains /\ ~trains[last.train].on_trip

Overflow == \E t \in DOMAIN trips : TotalCargo(trips[t].passengers) > MaxWeightOf(t)

----------------------------------------------------------------------------
(* C1 *)

\* C1: after any sequence of join_trip and leave_trip calls, the cargo of the
\* passengers of every trip, counted with multiplicity, is at most the
\* train's max_cargo_weight.
CapacityInvariant ==
    \A t \in DOMAIN trips : TotalCargo(trips[t].passengers) <= MaxWeightOf(t)

\* a join has just been refused on a trip that is exactly full
CapacityWitness ==
    /\ last.op = "join"
    /\ last.error = InsufficientCapacityError
    /\ Len(trips[last.trip].passengers) >= 2
    /\ TotalCargo(trips[last.trip].passengers) = MaxWeightOf(last.trip)

----------------------------------------------------------------------------
(* C2 *)

\* C2: join_trip raises "Heavy load!" exactly when the passenger's cargo is
\* greater than the capacity remaining at the call, and then leaves the list
\* as it was; otherwise it appends the passenger once at the end, also when
\* the cargo equals the remaining capacity or the passenger is already listed.
JoinContract ==
    last.op = "join" =>
        LET remaining == MaxWeightOf(last.trip) - TotalCargo(last.before)
            now == trips[last.trip].passengers
        IN  /\ last.error \in {NoError, InsufficientCapacityError}
            /\ (last.error = InsufficientCapacityError)
                  <=> (cargo_weight[last.passenger] > remaining)
            /\ last.error = InsufficientCapacityError => now = last.before
            /\ last.error = NoError => now = last.before \o <<last.passenger>>

\* a passenger already listed joined again with cargo equal to what remained
JoinWitness ==
    /\ last.op = "join"
    /\ last.error = NoError
    /\ Occurrences(last.before, last.passenger) > 0
    /\ cargo_weight[last.passenger] > 0
    /\ cargo_weight[last.passenger]
          = MaxWeightOf(last.trip) - TotalCargo(last.before)
    /\ Occurrences(trips[last.trip].passengers, last.passenger) = 2

----------------------------------------------------------------------------
(* C3 *)

\* C3: trip() returns max_cargo_weight minus the cargo of the passengers now
\* in the list, each occurrence counted, whatever put them there (join, leave
\* or assignment of the list); it changes nothing; right after construction
\* it is max_cargo_weight.
QueryContract ==
    /\ \A t \in DOMAIN trips :
          TrainTrip_call(t) = MaxWeightOf(t) - TotalCargo(trips[t].passengers)
    /\ last.op = "call" =>
          /\ last.result = MaxWeightOf(last.trip)
                              - TotalCargo(trips[last.trip].passengers)
          /\ trips[last.trip].passengers = last.before
    /\ (last.op = "init" /\ last.error = NoError) =>
          TrainTrip_call(last.trip) = MaxWeightOf(last.trip)

\* the query answered on a list holding the same passenger twice
QueryWitness ==
    /\ last.op = "call"
    /\ \E p \in Passengers : /\ Occurrences(last.before, p) = 2
                             /\ cargo_weight[p] > 0
    /\ last.result = MaxWeightOf(last.trip) - 2
    /\ last.result < 0

----------------------------------------------------------------------------
(* C4 *)

\* C4: leave_trip raises the not-on-trip error and leaves the list as it was
\* when the passenger object is not in it; otherwise it takes out the earliest
\* occurrence of that object and nothing else, keeping the order of the rest.
LeaveContract ==
    last.op = "leave" =>
        LET now == trips[last.trip].passengers
            p == last.passenger
        IN  IF Occurrences(last.before, p) = 0
            THEN last.error = NotOnTripError /\ now = last.before
            ELSE /\ last.error = NoError
                 /\ \E i \in DOMAIN last.before :
                       /\ last.before[i] = p
                       /\ \A j \in 1..(i - 1) : last.before[j] # p
                       /\ now = WithoutIndex(last.before, i)

\* a passenger listed twice, with its namesake of equal weight listed before
\* and between, has left
LeaveWitness ==
    /\ last.op = "leave"
    /\ last.error = NoError
    /\ \E i, j, k \in DOMAIN last.before :
          /\ i < j /\ j < k
          /\ last.before[i] = last.passenger
          /\ last.before[k] = last.passenger
          /\ last.before[j] # last.passenger
          /\ name[last.before[j]] = name[last.passenger]
          /\ cargo_weight[last.before[j]] = cargo_weight[last.passenger]
    /\ trips[last.trip].passengers = Tail(last.before)

----------------------------------------------------------------------------
(* C5 *)

----------------------------------------------------------------------------
(* C6 *)

\* C6: a failing constructor raises the error of the first check that fails,
\* in the order: not a Train, train on a trip, origin not listed, origin
\* equal to destination, origin not the train's last_station.
InitErrorOrder ==
    last.op = "init" =>
        /\ last.train \notin Trains => last.error = InvalidTrainError
        /\ (last.train \in Trains /\ trains[last.train].on_trip)
              => last.error = TrainUnavailableError
        /\ (LastTrainValidAndFree /\ last.origin \notin CitySet)
              => last.error = UnknownCityError
        /\ (LastTrainValidAndFree /\ last.origin \in CitySet
              /\ last.origin = last.dest)
              => last.error = SameCityError
        /\ (LastTrainValidAndFree /\ last.origin \in CitySet
              /\ last.origin # last.dest
              /\ last.origin # trains[last.train].last_station)
              => last.error = TrainNotAtOriginError

\* every city check fails at once on a train that is free
InitErrorOrderWitness ==
    /\ last.op = "init"
    /\ LastTrainValidAndFree
    /\ last.origin \notin CitySet
    /\ last.origin = last.dest
    /\ last.origin # trains[last.train].last_station
    /\ last.error = UnknownCityError

----------------------------------------------------------------------------
(* C7 *)

\* C7 as stated: with a free Train, equal origin and destination always give
\* the same-city error, whether or not the city is listed.
SameCityAlways ==
    (last.op = "init" /\ LastTrainValidAndFree /\ last.origin = last.dest)
        => last.error = SameCityError

\* C7: with a free Train, equal origin and destination always fail: with the
\* same-city error when the city is listed (wherever the train is), with the
\* unknown-city error when it is not.
SameCityWhenListed ==
    (last.op = "init" /\ LastTrainValidAndFree /\ last.origin = last.dest)
        => /\ last.trip \notin DOMAIN trips
           /\ last.error = IF last.origin \in CitySet THEN SameCityError
                                                      ELSE UnknownCityError

\* equal listed cities, the train being elsewhere
SameCityWitness ==
    /\ last.op = "init"
    /\ LastTrainValidAndFree
    /\ last.origin = last.dest
    /\ last.origin \in CitySet
    /\ last.origin # trains[last.train].last_station
    /\ last.error = SameCityError

----------------------------------------------------------------------------
(* C8 *)

\* C8 as stated: with a free Train whose last_station is not the origin, the
\* constructor raises the train-not-at-origin error.
NotAtOriginAlways ==
    (last.op = "init" /\ LastTrainValidAndFree
        /\ last.origin # trains[last.train].last_station)
        => last.error = TrainNotAtOriginError

\* C8: with a free Train whose last_station is not the origin, the constructor
\* fails and makes no trip: with the train-not-at-origin error when the origin
\* is listed and differs from the destination, with the unknown-city error
\* when the origin is not listed, with the same-city error when it is listed
\* and equals the destination.
NotAtOriginWhenCitiesPass ==
    (last.op = "init" /\ LastTrainValidAndFree
        /\ last.origin # trains[last.train].last_station)
        => /\ last.trip \notin DOMAIN trips
           /\ last.error =
                 IF last.origin \notin CitySet THEN UnknownCityError
                 ELSE IF last.origin = last.dest THEN SameCityError
                 ELSE TrainNotAtOriginError

\* a listed origin, another destination, the train elsewhere
NotAtOriginWitness ==
    /\ last.op = "init"
    /\ LastTrainValidAndFree
    /\ last.origin \in CitySet
    /\ last.origin # last.dest
    /\ last.origin # trains[last.train].last_station
    /\ last.error = TrainNotAtOriginError

----------------------------------------------------------------------------
(* C9 *)

\* no call changes a Train, and a call changes at most the trip it is on
TrainFrame ==
    /\ trains' = trains
    /\ \A t \in DOMAIN trips :
          /\ t \in DOMAIN trips'
          /\ t # last'.trip => trips'[t] = trips[t]

\* a constructor call for a train and origin that another trip already has
\* succeeds (the destination being another city)
SecondTripSucceeds ==
    (/\ last.op = "init"
     /\ last.origin # last.dest
     /\ \E u \in DOMAIN trips : /\ u # last.trip
                                /\ trips[u].train = last.train
                                /\ trips[u].origin_city = last.origin)
        => last.error = NoError

----------------------------------------------------------------------------
(* C10 *)

\* C10: with join_trip's test and append interleaved between two calls, every
\* passenger appended fitted the capacity its call had read, yet the cargo of
\* a trip can exceed max_cargo_weight; it does so only after an append made
\* on a capacity that was no longer the current one.
RaceOnlyWhenInterleaved ==
    /\ last.op = "join" =>
          (last.error = NoError <=> cargo_weight[last.passenger] <= last.read)
    /\ Overflow => raced

\* both calls read the capacity before either appended, and both appended
RaceWitness ==
    /\ Overflow
    /\ last.op = "join"
    /\ last.error = NoError
    /\ cargo_weight[last.passenger] <= last.read
    /\ \A i \in DOMAIN trips[last.trip].passengers :
          cargo_weight[trips[last.trip].passengers[i]] <= MaxWeightOf(last.trip)

====
